---- MODULE Spec2Model ----
(***************************************************************************)
(* Schema version detection, pre-migration backup and migration            *)
(* application of Quick-Invoice (src-tauri/src/database): VersionManager,  *)
(* MigrationRunner, BackupManager and MigrationTriggerSystem, driven by    *)
(* the commands of handlers/migration_handler.rs.                          *)
(*                                                                         *)
(* Every command invocation is a task.  A task runs one operation at a     *)
(* time; an operation is cut at its await points on the database or the    *)
(* file system, so that other tasks interleave exactly where the async     *)
(* code can be suspended.                                                  *)
(***************************************************************************)
EXTENDS Integers, Sequences, FiniteSets, TLC

VARIABLES db, backups, now, pc, op, loc, ret, prev, dbWriter, runnerMutex, opsStarted,
          embedded

vars == <<db, backups, now, pc, op, loc, ret, prev, dbWriter, runnerMutex, opsStarted,
          embedded>>

\* Bounds of the model.
MaxOps == 2
MaxSeqOps == 3
MaxTime == 1

\* Two command invocations at a time.
Tasks == {1, 2}
NoTask == 0

(***************************************************************************)
(* The catalog and the embedded SQL                                        *)
(***************************************************************************)

\* The description field of a Migration is carried nowhere but into the
\* ledger row and is left out.
get_all_migrations ==
    << [version |-> 1, name |-> "v001_initial_schema",
        sql_file |-> "v001_initial_schema.sql", checksum |-> "initial_schema_v1"],
       [version |-> 2, name |-> "v002_gst_fixes",
        sql_file |-> "v002_gst_fixes.sql", checksum |-> "gst_fixes_v2"],
       [version |-> 3, name |-> "v003_email_config",
        sql_file |-> "v003_email_config.sql", checksum |-> "email_config_v3"] >>

NoSql == "NoSql"

\* Option<&'static str>: the name of the embedded text, or NoSql for None.
get_migration_sql(version, sql_file) ==
    CASE version = 1 /\ sql_file = "v001_initial_schema.sql" -> "V001_INITIAL_SCHEMA"
      [] version = 2 /\ sql_file = "v002_gst_fixes.sql" -> "V002_GST_FIXES"
      [] version = 3 /\ sql_file = "v003_email_config.sql" -> "V003_EMAIL_CONFIG"
      [] version = 1 /\ sql_file = "v001_email_config.sql" -> "V001_EMAIL_CONFIG_NEW"
      [] version = 2 /\ sql_file = "v002_tag_settings.sql" -> "V002_TAG_SETTINGS_NEW"
      [] version = 3 /\ sql_file = "v003_additional_indexes.sql" -> "V003_ADDITIONAL_INDEXES"
      [] OTHER -> NoSql

\* The constants that include_str! fills from database/migrations/*.sql when
\* the program is built; the other three are written out in the source.
IncludedFiles == {"V001_INITIAL_SCHEMA", "V002_GST_FIXES", "V003_EMAIL_CONFIG"}

\* The texts a migration file may hold: nothing, white space only, plain
\* statements, and statements with the keywords validate_migration_sql
\* looks for.
PlainSql == "CREATE TABLE IF NOT EXISTS t (id INTEGER);"

DangerousSql == "DROP TABLE users; DELETE FROM customers;"

Texts == {"", " ", PlainSql, DangerousSql}

\* The build whose three files hold plain statements.
PlainBuild == [c \in IncludedFiles |-> PlainSql]

\* The text of a constant of embedded_migrations.rs in the build e.
EmbeddedText(e, c) == IF c \in IncludedFiles THEN e[c] ELSE PlainSql

\* Every text passes.
validate_migration_sql_any(sql) == TRUE

\* sql.trim().is_empty() is the only test that fails; the keywords are only
\* logged.  The blank texts are the empty one and the one of white space.
validate_migration_sql(sql) == sql \notin {"", " "}

(***************************************************************************)
(* The database file: the tracking table, the effects of the migrations    *)
(* committed on it and the business tables that predate the ledger.        *)
(***************************************************************************)

LegacyTableNames == {"customers", "invoices", "services", "stores"}

EmptyDb == [hasTable |-> FALSE, ledger |-> <<>>, schema |-> {}, tables |-> {}]

LegacyDb == [hasTable |-> FALSE, ledger |-> <<>>, schema |-> {}, tables |-> LegacyTableNames]

RECURSIVE SeqMax(_)
SeqMax(s) ==
    IF Len(s) = 1 THEN s[1]
    ELSE LET m == SeqMax(Tail(s)) IN IF s[1] > m THEN s[1] ELSE m

Versions(s) == [i \in 1..Len(s) |-> s[i].version]

VersionSet(s) == {s[i].version : i \in 1..Len(s)}

\* ORDER BY version: insertion of each row into an ascending list.
RECURSIVE SortByVersion(_)
SortByVersion(s) ==
    IF s = <<>> THEN <<>>
    ELSE LET rest == SortByVersion(Tail(s))
             lo == SelectSeq(rest, LAMBDA r: r.version <= s[1].version)
             hi == SelectSeq(rest, LAMBDA r: r.version > s[1].version)
         IN lo \o <<s[1]>> \o hi

has_migrations_table(d) == d.hasTable

create_migrations_table(d) == [d EXCEPT !.hasTable = TRUE]

get_applied_migrations(d) ==
    IF ~has_migrations_table(d) THEN <<>> ELSE SortByVersion(d.ledger)

\* The count is compared with the number of the names, not with zero.
has_legacy_tables_all(d) ==
    Cardinality(d.tables \cap LegacyTableNames) = Cardinality(LegacyTableNames)

has_legacy_tables(d) == Cardinality(d.tables \cap LegacyTableNames) > 0

get_current_version(d) ==
    LET applied == get_applied_migrations(d) IN
    IF applied = <<>>
    THEN (IF has_legacy_tables(d) THEN 0 ELSE -1)
    ELSE SeqMax(Versions(applied))

\* The filter of the pending list forgets the comparison with
\* current_version.
DatabaseVersionInfo_UnappliedOnly(current_version, applied_migrations) ==
    LET required_version == SeqMax(Versions(get_all_migrations))
        applied_versions == VersionSet(applied_migrations)
    IN [current_version |-> current_version,
        required_version |-> required_version,
        is_legacy |-> current_version = 0,
        needs_migration |-> current_version < required_version,
        pending_migrations |->
            SelectSeq(get_all_migrations,
                      LAMBDA m: m.version \notin applied_versions),
        applied_migrations |-> applied_migrations]

\* The filter of the pending list compares with >= and forgets the ledger.
DatabaseVersionInfo_Reoffering(current_version, applied_migrations) ==
    LET required_version == SeqMax(Versions(get_all_migrations))
    IN [current_version |-> current_version,
        required_version |-> required_version,
        is_legacy |-> current_version = 0,
        needs_migration |-> current_version < required_version,
        pending_migrations |->
            SelectSeq(get_all_migrations, LAMBDA m: m.version >= current_version),
        applied_migrations |-> applied_migrations]

\* The pending list is built from the catalog read from its end.
DatabaseVersionInfo_Descending(current_version, applied_migrations) ==
    LET required_version == SeqMax(Versions(get_all_migrations))
        applied_versions == VersionSet(applied_migrations)
        reversed == [i \in 1..Len(get_all_migrations) |->
                        get_all_migrations[Len(get_all_migrations) + 1 - i]]
    IN [current_version |-> current_version,
        required_version |-> required_version,
        is_legacy |-> current_version = 0,
        needs_migration |-> current_version < required_version,
        pending_migrations |->
            SelectSeq(reversed,
                      LAMBDA m: m.version \notin applied_versions
                                /\ m.version > current_version),
        applied_migrations |-> applied_migrations]

\* detect_database_version reads the database twice: current_version comes
\* from the first read, applied_migrations from the second.
DatabaseVersionInfo(current_version, applied_migrations) ==
    LET required_version == SeqMax(Versions(get_all_migrations))
        applied_versions == VersionSet(applied_migrations)
    IN [current_version |-> current_version,
        required_version |-> required_version,
        is_legacy |-> current_version = 0,
        needs_migration |-> current_version < required_version,
        pending_migrations |->
            SelectSeq(get_all_migrations,
                      LAMBDA m: m.version \notin applied_versions
                                /\ m.version > current_version),
        applied_migrations |-> applied_migrations]

detect_database_version(d) ==
    DatabaseVersionInfo(get_current_version(d), get_applied_migrations(d))

check_migration_status(info) ==
    IF ~info.needs_migration
    THEN [status |-> "Current", version |-> info.current_version]
    ELSE [status |-> "RequiresUpgrade",
          current_version |-> info.current_version,
          required_version |-> info.required_version,
          pending_migrations |-> info.pending_migrations]

\* The test of the row count is negated.
is_migration_applied_negated(d, version) ==
    IF ~has_migrations_table(d) THEN FALSE ELSE version \notin VersionSet(d.ledger)

is_migration_applied(d, version) ==
    IF ~has_migrations_table(d) THEN FALSE ELSE version \in VersionSet(d.ledger)


(***************************************************************************)
(* A migration transaction: what it has written and not yet committed.     *)
(***************************************************************************)

EmptyTx == [schema |-> {}, ledger |-> <<>>]

\* The batch is executed on the pool: it is committed as it runs.
execute_migration_sql_on_pool(d, tx, m) ==
    [db |-> [d EXCEPT !.schema = @ \cup {m.version}], tx |-> tx]

\* The batch is executed on the transaction, not on the pool.
execute_migration_sql(d, tx, m) ==
    [db |-> d, tx |-> [tx EXCEPT !.schema = @ \cup {m.version}]]

\* The version column without its UNIQUE constraint.
LedgerAccepts_NotUnique(d, tx, m) == has_migrations_table(d)

\* version INTEGER NOT NULL UNIQUE, in a table that exists.
LedgerAccepts(d, tx, m) ==
    /\ has_migrations_table(d)
    /\ m.version \notin VersionSet(d.ledger) \cup VersionSet(tx.ledger)

\* id INTEGER PRIMARY KEY AUTOINCREMENT: rows are never deleted, so the next
\* id is the number of rows plus one.
record_migration_in_tx(d, tx, m) ==
    [tx EXCEPT !.ledger = Append(@, [id |-> Len(d.ledger) + Len(tx.ledger) + 1,
                                     version |-> m.version,
                                     name |-> m.name,
                                     checksum |-> m.checksum])]

commit(d, tx) ==
    [d EXCEPT !.schema = @ \cup tx.schema, !.ledger = @ \o tx.ledger]

(***************************************************************************)
(* Backup files                                                            *)
(***************************************************************************)

backup_name(trigger) ==
    CASE trigger.kind = "AppStartup" -> "pre_migration_startup"
      [] trigger.kind = "DatabaseRestore" -> "pre_migration_restore"
      [] trigger.kind = "DatabaseImport" -> "pre_migration_import"
      [] trigger.kind = "ManualRequest" -> "pre_migration_manual"

PreMigrationLabels ==
    {"pre_migration_startup", "pre_migration_restore",
     "pre_migration_import", "pre_migration_manual"}

\* The name is built from the second alone: the prefix is left out.
BackupPath_NoPrefix(prefix, time) == [label |-> "backup", ts |-> time]

\* format!("{}_{}.sqlite", prefix, timestamp) with the clock read in seconds.
BackupPath(prefix, time) == [label |-> prefix, ts |-> time]

\* format("%Y%m%d_%H%M%S") of the second `time` of the first of January
\* 1970, for the seconds below ten.
Timestamp(time) == "19700101_00000" \o ToString(time)

\* The file name of a path, as text.
backup_filename(p) == p.label \o "_" \o Timestamp(p.ts) \o ".sqlite"

\* chrono::Utc::now() in seconds: the clock is read only here, and a later
\* reading is never earlier.
ClockReadings == {n \in {now, now + 1} : n <= MaxTime}

\* The copy is not made: the path is returned and no file is written.
create_backup_unwritten(files, prefix, time, d) == [backups |-> files, db |-> d]

\* The copy opens the live file for writing: the backup is written and the
\* live file is left truncated.
create_backup_truncating(files, prefix, time, d) ==
    [backups |-> [p \in DOMAIN files \cup {BackupPath(prefix, time)} |->
                     IF p = BackupPath(prefix, time) THEN d ELSE files[p]],
     db |-> EmptyDb]

\* tokio::fs::copy(current_db_path, backup_path) creates or overwrites the
\* backup and reads the live file: the backup directory and the live file
\* after the copy.
create_backup(files, prefix, time, d) ==
    [backups |-> [p \in DOMAIN files \cup {BackupPath(prefix, time)} |->
                     IF p = BackupPath(prefix, time) THEN d ELSE files[p]],
     db |-> d]

\* A database file outside the backup directory that the user may import or
\* restore from: a database at version 1.
ExternalPath == [label |-> "external", ts |-> 0]

ExternalDb ==
    [hasTable |-> TRUE,
     ledger |-> << [id |-> 1, version |-> 1, name |-> "v001_initial_schema",
                    checksum |-> "initial_schema_v1"] >>,
     schema |-> {1},
     tables |-> LegacyTableNames]

FileExists(path) == path \in DOMAIN backups \/ path = ExternalPath

\* Nothing is read from the file: the copy leaves the live database as it
\* is.
FileContent_Unread(path) == db

FileContent(path) == IF path = ExternalPath THEN ExternalDb ELSE backups[path]

(***************************************************************************)
(* Tasks                                                                   *)
(***************************************************************************)

\* Option<T>: None is the empty sequence, Some(x) the sequence of x alone.
NoneOpt == <<>>

Some(x) == <<x>>

RetNone == [tag |-> "None"]

Ok(v) == [tag |-> "Ok", value |-> v]

Err(e) == [tag |-> "Err", error |-> e]

NoStatus == [status |-> "None"]

NoOp == [kind |-> "none"]

\* The locals of an operation.  cur, pending, idx, applied, tx and status are
\* the code's, listed is the `backups` of cleanup_old_backups and
\* safety_backup the path restore_backup got from create_backup; batch is
\* the value apply_pending_migrations returned to
\* apply_migrations_with_consent; attempted, committed and failedAt record
\* which versions apply_migration was called on, which of them this
\* operation committed, and the version whose apply_migration failed;
\* replaced records the live content that the copy of restore_backup wrote
\* over, and undo, in a restore from the safety backup of the restore that
\* this task made just before, the content that restore wrote over; chain
\* is the anyhow::Error an operation failed with, and api the message the
\* apply_pending_migrations command chose for it.
LocInit ==
    [cur |-> -1, pending |-> <<>>, idx |-> 0, applied |-> <<>>, tx |-> EmptyTx,
     status |-> NoStatus, batch |-> RetNone,
     attempted |-> <<>>, committed |-> <<>>, failedAt |-> 0, listed |-> <<>>,
     safety_backup |-> NoneOpt, replaced |-> NoneOpt, undo |-> NoneOpt,
     chain |-> <<>>, api |-> "none"]

\* Every command builds its own MigrationTriggerSystem, and new() builds the
\* Arc<Mutex<MigrationRunner>> of that system.
SystemOf(t) == t

\* The consent is not looked at.
ConsentProceeds_Always(user_consent) == TRUE

\* if !user_consent { return Ok(()) }
ConsentProceeds(user_consent) == user_consent

\* No arm of the match creates a backup.
NeedsBackup_Never(status) == FALSE

\* match &status { RequiresUpgrade { .. } => Some(backup), _ => None }
NeedsBackup(status) == status.status = "RequiresUpgrade"

Init ==
    /\ db \in {EmptyDb, LegacyDb, ExternalDb}
    /\ backups = << >>
    /\ now = 0
    /\ pc = [t \in Tasks |-> "idle"]
    /\ op = [t \in Tasks |-> NoOp]
    /\ loc = [t \in Tasks |-> LocInit]
    /\ ret = [t \in Tasks |-> RetNone]
    /\ prev = [t \in Tasks |-> FALSE]
    /\ dbWriter = NoTask
    /\ runnerMutex = [s \in Tasks |-> NoTask]
    /\ opsStarted = 0
    /\ embedded = PlainBuild


(***************************************************************************)
(* Entering and leaving an operation                                       *)
(***************************************************************************)

Idle(t) == pc[t] \in {"idle", "done"}

\* The call task t has just finished was apply_migrations_with_consent(true)
\* and it returned Ok; prev[t] keeps this about the call before the present
\* one.
AppliedOk(t) ==
    /\ pc[t] = "done"
    /\ op[t].kind = "consent"
    /\ op[t].user_consent
    /\ ret[t].tag = "Ok"

\* Task t enters operation o at `first` with the locals l.
BeginWith(t, o, first, r, l) ==
    /\ Idle(t)
    /\ opsStarted' = opsStarted + 1
    /\ op' = [op EXCEPT ![t] = o]
    /\ prev' = [prev EXCEPT ![t] = AppliedOk(t)]
    /\ pc' = [pc EXCEPT ![t] = first]
    /\ loc' = [loc EXCEPT ![t] = l]
    /\ ret' = [ret EXCEPT ![t] = r]

Begin(t, o, first, r) == BeginWith(t, o, first, r, LocInit)

\* The operation returns r with locals l; the MutexGuard of the runner, when
\* this task holds it, is dropped on the way out, and so are the locals of
\* the loops.
Finish(t, r, l) ==
    /\ pc' = [pc EXCEPT ![t] = "done"]
    /\ ret' = [ret EXCEPT ![t] = r]
    /\ loc' = [loc EXCEPT ![t] = [l EXCEPT !.cur = LocInit.cur,
                                            !.pending = LocInit.pending,
                                            !.idx = LocInit.idx,
                                            !.tx = EmptyTx]]
    /\ runnerMutex' = [runnerMutex EXCEPT ![SystemOf(t)] = IF @ = t THEN NoTask ELSE @]

InBatch(t) ==
    /\ op[t].kind = "consent"
    /\ pc[t] \in {"AP_table", "AP_cur", "AP_pend",
                  "AM_check", "AM_exec", "AM_record", "AM_commit"}

(***************************************************************************)
(* Error messages.  A message is its text and which of the patterns the    *)
(* apply_pending_migrations command looks for occur in that text.          *)
(***************************************************************************)

Patterns == {"no such file", "syntax", "already exists"}

\* The messages of SQLite that sqlx hands on.
SyntaxError == [text |-> "near \"TABEL\": syntax error", has |-> {"syntax"}]

AlreadyExists == [text |-> "table customers already exists", has |-> {"already exists"}]

Busy == [text |-> "database is locked", has |-> {}]

\* The text of a format string or context of the source; none has one of
\* the patterns, and neither have the names and file names of the catalog.
Context(text) == [text |-> text, has |-> {}]

\* What the database can have said when a step of kind e fails: a batch of
\* statements can fail on any of the messages, the single statements and
\* the commit on a lock.
CausesOf(e) ==
    CASE e = "execute" -> {SyntaxError, AlreadyExists, Busy}
      [] e \in {"record", "commit", "create_table", "detect"} -> {Busy}
      [] OTHER -> {Context(e)}

\* The anyhow::Error of a failure of kind e, the outermost message first:
\* .context() and with_context() put their text before the cause, a bare `?`
\* adds nothing, and anyhow!() or bail!() have no cause.
ErrorChain(e, cause) ==
    CASE e = "execute" -> <<Context("Failed to execute migration"), cause>>
      [] e = "record" -> <<Context("Failed to record migration"), cause>>
      [] e = "commit" -> <<Context("Failed to commit migration transaction"), cause>>
      [] e = "create_table" -> <<Context("Failed to create migrations table"), cause>>
      [] e = "detect" -> <<cause>>
      [] e = "not_found" -> <<Context("Migration SQL not found")>>
      [] e = "empty_sql" -> <<Context("Migration has empty SQL")>>
      [] OTHER -> <<cause>>

\* e.to_string(): Display of an anyhow::Error prints the outermost message
\* only; the causes are printed by {:#} and {:?}.
to_string(chain) == chain[1]

\* let error_msg = if e.to_string().contains("no such file") ... of the
\* apply_pending_migrations command: the prefix it chooses.
error_msg(chain) ==
    IF "no such file" \in to_string(chain).has THEN "Migration files not found"
    ELSE IF "syntax" \in to_string(chain).has THEN "SQL syntax error in migration"
    ELSE IF "already exists" \in to_string(chain).has THEN "Database object already exists"
    ELSE "Migration failed"

\* An error leaves through every `?` up to the command; v is the version of
\* the migration being applied, 0 outside apply_migration.  The transaction,
\* if one is open, is dropped and so rolled back.
FailWith(t, e, v, l) ==
    \E cause \in CausesOf(e) :
        Finish(t, Err(e),
               [l EXCEPT !.tx = EmptyTx,
                         !.failedAt = v,
                         !.batch = IF InBatch(t) THEN Err(e) ELSE @,
                         !.chain = ErrorChain(e, cause),
                         !.api = IF op[t].kind = "consent"
                                 THEN error_msg(ErrorChain(e, cause)) ELSE @])

Fail(t, e, v) == FailWith(t, e, v, loc[t])

\* What the message of an error of apply_migration says of the migration it
\* was applying: the fields its format string or context names.
ErrorContext(e) ==
    CASE e = "not_found" -> {"version", "name", "sql_file"}
      [] e = "empty_sql" -> {"name"}
      [] e = "execute"   -> {"version", "name"}
      [] e = "record"    -> {}
      [] e = "commit"    -> {}
      [] OTHER           -> {}

\* The loop's list is lost: an empty one is handed back.
apply_pending_result_empty(applied) == Ok(<<>>)

\* What apply_pending_migrations hands back when its loop ends.
apply_pending_result(applied) == Ok(applied)

\* apply_migration returned Ok for pending[idx]; l holds the locals after it.
AfterApply(t, l) ==
    LET m == l.pending[l.idx]
        l2 == [l EXCEPT !.tx = EmptyTx,
                        !.applied = IF op[t].kind = "consent" THEN Append(@, m) ELSE @]
    IN IF l.idx < Len(l.pending)
       THEN /\ pc' = [pc EXCEPT ![t] = "AM_check"]
            /\ loc' = [loc EXCEPT ![t] = [l2 EXCEPT !.idx = @ + 1]]
            /\ UNCHANGED <<ret, runnerMutex>>
       ELSE Finish(t, Ok("unit"),
                   [l2 EXCEPT !.batch = IF op[t].kind = "consent"
                                        THEN apply_pending_result(l2.applied) ELSE @])

(***************************************************************************)
(* VersionManager::detect_database_version, in its two reads               *)
(***************************************************************************)

DetectCur(t, here, next) ==
    /\ pc[t] = here
    /\ \/ /\ pc' = [pc EXCEPT ![t] = next]
          /\ loc' = [loc EXCEPT ![t].cur = get_current_version(db)]
          /\ UNCHANGED <<ret, runnerMutex>>
       \/ Fail(t, "detect", 0)
    /\ UNCHANGED <<db, backups, now, op, prev, dbWriter, opsStarted>>

(***************************************************************************)
(* MigrationTriggerSystem::check_and_prepare_migration and its entry       *)
(* points on_app_startup, on_manual_request, on_database_restore and       *)
(* on_database_import                                                      *)
(***************************************************************************)

StartCheck(t) ==
    /\ \E k \in {"AppStartup", "ManualRequest"} :
          Begin(t, [kind |-> "check", trigger |-> [kind |-> k]], "CM_cur", RetNone)
    /\ UNCHANGED <<db, backups, now, dbWriter, runnerMutex>>

StartRestore(t) ==
    /\ \E k \in {"DatabaseRestore", "DatabaseImport"} :
       \E p \in DOMAIN backups \cup {ExternalPath} :
          BeginWith(t, [kind |-> "check", trigger |-> [kind |-> k, path |-> p]],
                    "RB_safety", RetNone,
                    [LocInit EXCEPT !.undo = IF loc[t].safety_backup = Some(p)
                                             THEN loc[t].replaced ELSE NoneOpt])
    /\ UNCHANGED <<db, backups, now, dbWriter, runnerMutex>>

\* BackupManager::restore_backup: the safety backup...
RestoreSafety(t) ==
    /\ pc[t] = "RB_safety"
    /\ \/ /\ \E n \in ClockReadings :
             LET fs == create_backup(backups, "safety_before_restore", n, db)
             IN /\ now' = n
                /\ backups' = fs.backups
                /\ db' = fs.db
                /\ loc' = [loc EXCEPT ![t].safety_backup =
                                          Some(BackupPath("safety_before_restore", n))]
          /\ pc' = [pc EXCEPT ![t] = "RB_copy"]
          /\ UNCHANGED <<ret, runnerMutex>>
       \/ /\ Fail(t, "backup", 0)
          /\ UNCHANGED <<db, backups, now>>
    /\ UNCHANGED <<op, prev, dbWriter, opsStarted>>

\* ...then the copy over the live file.  The copy is modelled while no write
\* transaction is open on the file.
RestoreCopy(t) ==
    /\ pc[t] = "RB_copy"
    /\ \/ /\ FileExists(op[t].trigger.path)
          /\ dbWriter = NoTask
          /\ db' = FileContent(op[t].trigger.path)
          /\ pc' = [pc EXCEPT ![t] = "CM_cur"]
          /\ loc' = [loc EXCEPT ![t].replaced = Some(db)]
          /\ UNCHANGED <<ret, runnerMutex>>
       \/ /\ Fail(t, "restore", 0)
          /\ UNCHANGED db
    /\ UNCHANGED <<backups, now, op, prev, dbWriter, opsStarted>>

CheckCur(t) == DetectCur(t, "CM_cur", "CM_pend")

CheckStatus(t) ==
    /\ pc[t] = "CM_pend"
    /\ LET info == DatabaseVersionInfo(loc[t].cur, get_applied_migrations(db))
           status == check_migration_status(info)
       IN IF NeedsBackup(status)
          THEN /\ pc' = [pc EXCEPT ![t] = "CM_backup"]
               /\ loc' = [loc EXCEPT ![t].status = status]
               /\ UNCHANGED <<ret, runnerMutex>>
          ELSE Finish(t, Ok([trigger |-> op[t].trigger, status |-> status,
                             backup_created |-> NoneOpt]),
                      [loc[t] EXCEPT !.status = status])
    /\ UNCHANGED <<db, backups, now, op, prev, dbWriter, opsStarted>>

\* create_pre_migration_backup
CheckBackup(t) ==
    /\ pc[t] = "CM_backup"
    /\ \/ \E n \in ClockReadings :
             LET fs == create_backup(backups, backup_name(op[t].trigger), n, db)
             IN
             /\ now' = n
             /\ backups' = fs.backups
             /\ db' = fs.db
             /\ Finish(t, Ok([trigger |-> op[t].trigger, status |-> loc[t].status,
                              backup_created |->
                                  Some(BackupPath(backup_name(op[t].trigger), n))]),
                       loc[t])
       \/ /\ Fail(t, "backup", 0)
          /\ UNCHANGED <<db, backups, now>>
    /\ UNCHANGED <<op, prev, dbWriter, opsStarted>>

(***************************************************************************)
(* MigrationTriggerSystem::apply_migrations_with_consent                   *)
(***************************************************************************)

Consent(t) ==
    /\ \E c \in BOOLEAN :
          IF ConsentProceeds(c)
          THEN Begin(t, [kind |-> "consent", user_consent |-> c], "AC_lock", RetNone)
          ELSE Begin(t, [kind |-> "consent", user_consent |-> c], "done", Ok("unit"))
    /\ UNCHANGED <<db, backups, now, dbWriter, runnerMutex>>


\* let mut runner = self.runner.lock().await
ConsentLock(t) ==
    /\ pc[t] = "AC_lock"
    /\ runnerMutex[SystemOf(t)] = NoTask
    /\ runnerMutex' = [runnerMutex EXCEPT ![SystemOf(t)] = t]
    /\ pc' = [pc EXCEPT ![t] = "AP_table"]
    /\ UNCHANGED <<db, backups, now, op, loc, ret, prev, dbWriter, opsStarted>>

(***************************************************************************)
(* MigrationRunner::apply_pending_migrations                               *)
(***************************************************************************)

\* create_migrations_table on the pool: a write of its own, which waits for
\* the write lock of the file.
EnsureTable(t, here, next) ==
    /\ pc[t] = here
    /\ \/ /\ dbWriter = NoTask
          /\ db' = create_migrations_table(db)
          /\ pc' = [pc EXCEPT ![t] = next]
          /\ UNCHANGED <<loc, ret, runnerMutex>>
       \/ /\ Fail(t, "create_table", 0)
          /\ UNCHANGED db
    /\ UNCHANGED <<backups, now, op, prev, dbWriter, opsStarted>>

PendingTable(t) == EnsureTable(t, "AP_table", "AP_cur")

PendingCur(t) == DetectCur(t, "AP_cur", "AP_pend")

PendingList(t) ==
    /\ pc[t] = "AP_pend"
    /\ LET info == DatabaseVersionInfo(loc[t].cur, get_applied_migrations(db))
       IN IF info.pending_migrations = <<>>
          THEN Finish(t, Ok("unit"), [loc[t] EXCEPT !.batch = Ok(<<>>)])
          ELSE /\ pc' = [pc EXCEPT ![t] = "AM_check"]
               /\ loc' = [loc EXCEPT ![t].pending = info.pending_migrations,
                                     ![t].idx = 1]
               /\ UNCHANGED <<ret, runnerMutex>>
    /\ UNCHANGED <<db, backups, now, op, prev, dbWriter, opsStarted>>

(***************************************************************************)
(* MigrationRunner::apply_migration on pending[idx]                        *)
(***************************************************************************)

Current(t) == loc[t].pending[loc[t].idx]

\* is_migration_applied, load_migration_sql, validate_migration_sql, begin.
ApplyCheck(t) ==
    /\ pc[t] = "AM_check"
    /\ LET m == Current(t)
           l == [loc[t] EXCEPT !.attempted = Append(@, m.version)]
           c == get_migration_sql(m.version, m.sql_file)
           sql == EmbeddedText(embedded, c)
       IN IF is_migration_applied(db, m.version)
          THEN AfterApply(t, l)
          ELSE IF c = NoSql
          THEN FailWith(t, "not_found", m.version, l)
          ELSE IF ~validate_migration_sql(sql)
          THEN FailWith(t, "empty_sql", m.version, l)
          ELSE /\ pc' = [pc EXCEPT ![t] = "AM_exec"]
               /\ loc' = [loc EXCEPT ![t] = l]
               /\ UNCHANGED <<ret, runnerMutex>>
    /\ UNCHANGED <<db, backups, now, op, prev, dbWriter, opsStarted>>

\* The first statement of the transaction takes the write lock of the file.
ApplyExec(t) ==
    /\ pc[t] = "AM_exec"
    /\ \/ /\ dbWriter = NoTask
          /\ LET r == execute_migration_sql(db, loc[t].tx, Current(t))
             IN /\ db' = r.db
                /\ loc' = [loc EXCEPT ![t].tx = r.tx]
          /\ dbWriter' = t
          /\ pc' = [pc EXCEPT ![t] = "AM_record"]
          /\ UNCHANGED <<ret, runnerMutex>>
       \/ /\ Fail(t, "execute", Current(t).version)
          /\ UNCHANGED <<db, dbWriter>>
    /\ UNCHANGED <<backups, now, op, prev, opsStarted>>

ApplyRecord(t) ==
    /\ pc[t] = "AM_record"
    /\ \/ /\ LedgerAccepts(db, loc[t].tx, Current(t))
          /\ loc' = [loc EXCEPT ![t].tx = record_migration_in_tx(db, @, Current(t))]
          /\ pc' = [pc EXCEPT ![t] = "AM_commit"]
          /\ UNCHANGED <<ret, runnerMutex, dbWriter>>
       \/ /\ Fail(t, "record", Current(t).version)
          /\ dbWriter' = NoTask
    /\ UNCHANGED <<db, backups, now, op, prev, opsStarted>>

ApplyCommit(t) ==
    /\ pc[t] = "AM_commit"
    /\ \/ /\ db' = commit(db, loc[t].tx)
          /\ AfterApply(t, [loc[t] EXCEPT !.committed = Append(@, Current(t).version)])
       \/ /\ Fail(t, "commit", Current(t).version)
          /\ UNCHANGED db
    /\ dbWriter' = NoTask
    /\ UNCHANGED <<backups, now, op, prev, opsStarted>>

(***************************************************************************)
(* MigrationRunner::initialize_database and a direct apply_migration       *)
(***************************************************************************)

StartInitialize(t) ==
    /\ Begin(t, [kind |-> "initialize_database"], "ID_table", RetNone)
    /\ UNCHANGED <<db, backups, now, dbWriter, runnerMutex>>

InitializeTable(t) ==
    /\ pc[t] = "ID_table"
    /\ \/ /\ dbWriter = NoTask
          /\ db' = create_migrations_table(db)
          /\ pc' = [pc EXCEPT ![t] = "AM_check"]
          /\ loc' = [loc EXCEPT ![t].pending = get_all_migrations, ![t].idx = 1]
          /\ UNCHANGED <<ret, runnerMutex>>
       \/ /\ Fail(t, "create_table", 0)
          /\ UNCHANGED db
    /\ UNCHANGED <<backups, now, op, prev, dbWriter, opsStarted>>

StartApplyMigration(t) ==
    /\ \E i \in DOMAIN get_all_migrations :
          BeginWith(t, [kind |-> "apply_migration", migration |-> get_all_migrations[i]],
                    "AM_check", RetNone,
                    [LocInit EXCEPT !.pending = <<get_all_migrations[i]>>, !.idx = 1])
    /\ UNCHANGED <<db, backups, now, dbWriter, runnerMutex>>

Start(t) ==
    \/ StartCheck(t)
    \/ StartRestore(t)
    \/ Consent(t)
    \/ StartInitialize(t)
    \/ StartApplyMigration(t)

Run(t) ==
    \/ RestoreSafety(t)
    \/ RestoreCopy(t)
    \/ CheckCur(t)
    \/ CheckStatus(t)
    \/ CheckBackup(t)
    \/ ConsentLock(t)
    \/ PendingTable(t)
    \/ PendingCur(t)
    \/ PendingList(t)
    \/ ApplyCheck(t)
    \/ ApplyExec(t)
    \/ ApplyRecord(t)
    \/ ApplyCommit(t)
    \/ InitializeTable(t)

\* Concurrent command invocations.
Next ==
    /\ \E t \in Tasks : Run(t) \/ (opsStarted < MaxOps /\ Start(t))
    /\ UNCHANGED embedded

Spec == Init /\ [][Next]_vars

\* One task alone: the calls follow one another.
NextSeq ==
    /\ Run(1) \/ (opsStarted < MaxSeqOps /\ Start(1))
    /\ UNCHANGED embedded

SpecSeq == Init /\ [][NextSeq]_vars


(***************************************************************************)
(* Properties                                                              *)
(***************************************************************************)

\* Task t takes the step.
Moved(t) == pc'[t] # pc[t] \/ loc'[t] # loc[t]

RunnerBatchPcs == {"AC_lock", "AP_table", "AP_cur", "AP_pend"}

ApplyPcs == {"AM_check", "AM_exec", "AM_record", "AM_commit"}

\* A call of apply_migrations_with_consent(false) is one step: an operation
\* starts and no task leaves its place other than to "done".
DeclineStep ==
    /\ opsStarted' # opsStarted
    /\ \A t \in Tasks : pc'[t] = pc[t] \/ pc'[t] = "done"

C1_State ==
    \A t \in Tasks :
        /\ (op[t].kind \in {"check", "consent"} /\ pc[t] \in RunnerBatchPcs \cup ApplyPcs)
              => (op[t].kind = "consent" /\ op[t].user_consent)
        /\ (op[t].kind = "consent" /\ ~op[t].user_consent)
              => /\ pc[t] = "done"
                 /\ ret[t] = Ok("unit")
                 /\ loc[t] = LocInit

C1_Action == DeclineStep => /\ db' = db
                            /\ backups' = backups
                            /\ dbWriter' = dbWriter
                            /\ runnerMutex' = runnerMutex

\* C1: among the operations of the trigger system only
\* apply_migrations_with_consent(true) is ever inside
\* MigrationRunner.apply_pending_migrations; apply_migrations_with_consent(false)
\* returns Ok(()) at once with the runner never entered, and the step leaves
\* the ledger, the schema, the backups and the locks as they were.
C1_ConsentGate == [](C1_State) /\ [][C1_Action]_vars

\* A task has declined on a database that needs its migrations.
C1_Witness ==
    \E t \in Tasks :
        /\ op[t].kind = "consent"
        /\ ~op[t].user_consent
        /\ pc[t] = "done"
        /\ ret[t].tag = "Ok"
        /\ detect_database_version(db).pending_migrations # <<>>

CheckPcs == {"CM_cur", "CM_pend", "CM_backup"}

\* A step of check_and_prepare_migration by task t: its call (for the
\* triggers that restore nothing first) or one of its awaits.
CheckStep(t) ==
    /\ op'[t].kind = "check"
    /\ \/ pc[t] \in CheckPcs /\ pc'[t] # pc[t]
       \/ Idle(t) /\ pc'[t] = "CM_cur"

\* C2: no step of check_and_prepare_migration, for any trigger and any
\* status, changes the live database: the ledger records, the schema and so
\* current_version are after the step what they were before it.
C2_CheckAppliesNothing ==
    [][\A t \in Tasks :
          CheckStep(t) => /\ db' = db
                          /\ get_applied_migrations(db') = get_applied_migrations(db)
                          /\ get_current_version(db') = get_current_version(db)]_vars

\* A check after a restore has returned RequiresUpgrade, with its backup
\* made, on a database that still has its one ledger record.
C2_Witness ==
    \E t \in Tasks :
        /\ op[t].kind = "check"
        /\ op[t].trigger.kind \in {"DatabaseRestore", "DatabaseImport"}
        /\ pc[t] = "done"
        /\ ret[t].tag = "Ok"
        /\ ret[t].value.status.status = "RequiresUpgrade"
        /\ ret[t].value.backup_created # NoneOpt
        /\ Len(db.ledger) = 1

C3_Return(t) ==
    (op[t].kind = "check" /\ pc[t] \in CheckPcs /\ pc'[t] = "done") =>
        IF ret'[t].tag = "Ok"
        THEN LET r == ret'[t].value IN
             /\ r.status.status \in {"RequiresUpgrade", "RequiresConsent"} =>
                   /\ pc[t] = "CM_backup"
                   /\ r.backup_created # NoneOpt
                   /\ r.backup_created[1].label = backup_name(op[t].trigger)
                   /\ r.backup_created[1].label \in PreMigrationLabels
                   /\ r.backup_created[1] \in DOMAIN backups'
                   /\ backups'[r.backup_created[1]] = db
             /\ r.status.status \notin {"RequiresUpgrade", "RequiresConsent"} =>
                   /\ r.status.status = "Current"
                   /\ pc[t] = "CM_pend"
                   /\ r.backup_created = NoneOpt
                   /\ backups' = backups
        ELSE backups' = backups

C3_Before(t) ==
    (op[t].kind = "check" /\ pc[t] \in {"CM_cur", "CM_pend"} /\ pc'[t] # pc[t])
        => backups' = backups

\* C3: a check that returns RequiresUpgrade (or RequiresConsent) returns with
\* it the path of a pre-migration backup, named after its trigger, that its
\* last step wrote with the content of the live database; a check that
\* returns Current returns no path and wrote no file; a check whose backup
\* fails returns an error and no result.
C3_BackupWithUpgrade ==
    [][\A t \in Tasks : C3_Return(t) /\ C3_Before(t)]_vars

\* A check has returned RequiresUpgrade with the path of its backup.
C3_Witness ==
    \E t \in Tasks :
        /\ op[t].kind = "check"
        /\ pc[t] = "done"
        /\ ret[t].tag = "Ok"
        /\ ret[t].value.status.status = "RequiresUpgrade"
        /\ ret[t].value.backup_created # NoneOpt
        /\ ret[t].value.backup_created[1] \in DOMAIN backups


\* C4, as claimed: whenever a batch started by
\* apply_migrations_with_consent(true) has committed a migration, a
\* pre-migration backup written by some check_and_prepare_migration exists.
C4_BackupBeforeUpgrade ==
    \A t \in Tasks :
        (op[t].kind = "consent" /\ loc[t].committed # <<>>)
            => \E p \in DOMAIN backups : p.label \in PreMigrationLabels

\* C5, as claimed: no two tasks are inside apply_pending_migrations, between
\* taking the lock of the runner and returning, at the same time.
C5_OneBatchInFlight ==
    \A t, u \in Tasks : (t # u /\ InBatch(t)) => ~InBatch(u)

\* The restore or import of task t copies its file over the live database.
RestoreCopyStep(t) == pc[t] = "RB_copy" /\ pc'[t] = "CM_cur"

C6_State == db.schema = VersionSet(db.ledger)

C6_Action(t) ==
    /\ (pc[t] \in {"AM_check", "AM_exec", "AM_record"} /\ Moved(t)) => db' = db
    /\ (pc[t] \in ApplyPcs /\ pc'[t] = "done" /\ ret'[t].tag = "Err")
          => /\ db' = db
             /\ loc'[t].tx = EmptyTx
             /\ dbWriter' # t
    /\ (pc[t] = "AM_commit" /\ Moved(t) /\ db' # db)
          => /\ db'.schema = db.schema \cup {Current(t).version}
             /\ VersionSet(db'.ledger) = VersionSet(db.ledger) \cup {Current(t).version}

\* C6: in every state the migrations whose effects the schema shows are those
\* the ledger records; the steps of apply_migration before the commit change
\* nothing in the database, a failure of the SQL, of the ledger insert or of
\* the commit leaves the database as it was with the transaction gone, and
\* the commit adds the effects and the record of the one migration together.
C6_AllOrNothing == [](C6_State) /\ [][\A t \in Tasks : C6_Action(t)]_vars

\* The commit of migration 2 has failed after its SQL and its ledger insert
\* ran: the database shows migration 1 alone.
C6_Witness ==
    \E t \in Tasks :
        /\ pc[t] = "done"
        /\ ret[t] = Err("commit")
        /\ loc[t].failedAt = 2
        /\ db.schema = {1}
        /\ VersionSet(db.ledger) = {1}

C7_State == Cardinality(VersionSet(db.ledger)) = Len(db.ledger)

C7_Kept ==
    (\A t \in Tasks : ~RestoreCopyStep(t)) =>
        /\ Len(db'.ledger) >= Len(db.ledger)
        /\ SubSeq(db'.ledger, 1, Len(db.ledger)) = db.ledger

C7_Action(t) ==
    /\ (pc[t] = "AM_check" /\ Moved(t) /\ is_migration_applied(db, Current(t).version))
          => /\ db' = db
             /\ pc'[t] \in {"AM_check", "done"}
             /\ pc'[t] = "done" => ret'[t].tag = "Ok"
             /\ loc'[t].committed = loc[t].committed
             /\ loc'[t].tx = EmptyTx

\* C7: the ledger never holds two records of one version; every step of
\* apply_migration, apply_pending_migrations and initialize_database keeps
\* the records there are, unchanged and in place, and may only add after
\* them; apply_migration on a version that is recorded returns Ok without a
\* transaction, with nothing executed or recorded.
C7_OneRecordPerVersion ==
    [](C7_State) /\ [][C7_Kept /\ \A t \in Tasks : C7_Action(t)]_vars

\* Two tasks have attempted the same version and the ledger holds it once: one
\* of them committed it, the other did not.
C7_Witness ==
    \E t, u \in Tasks :
        /\ t # u
        /\ pc[t] = "done"
        /\ pc[u] = "done"
        /\ loc[t].committed = <<1>>
        /\ loc[u].attempted # <<>>
        /\ loc[u].attempted[1] = 1
        /\ loc[u].committed = <<>>
        /\ Len(db.ledger) >= 1


StrictlyAscending(s) == \A i, j \in 1..Len(s) : i < j => s[i] < s[j]

Last(s) == s[Len(s)]

CatalogVersions == VersionSet(get_all_migrations)

\* Task t is in, or has just left, apply_migrations_with_consent(true).
ConsentBatch(t) == op[t].kind = "consent" /\ op[t].user_consent

C8_State(t) ==
    ConsentBatch(t) =>
        /\ StrictlyAscending(loc[t].attempted)
        /\ StrictlyAscending(loc[t].committed)
        /\ \A i \in 1..Len(loc[t].attempted) : loc[t].attempted[i] \in CatalogVersions
        /\ \A i \in 1..Len(loc[t].committed) :
              \E j \in 1..Len(loc[t].attempted) : loc[t].attempted[j] = loc[t].committed[i]
        /\ Cardinality(loc[t].tx.schema) <= 1
        /\ Len(loc[t].tx.ledger) <= 1
        /\ pc[t] = "AM_check" =>
              /\ loc[t].tx = EmptyTx
              /\ loc[t].attempted = SubSeq(Versions(loc[t].pending), 1, loc[t].idx - 1)
        /\ pc[t] \in {"AM_exec", "AM_record", "AM_commit"} =>
              /\ loc[t].tx.schema \subseteq {Current(t).version}
              /\ VersionSet(loc[t].tx.ledger) \subseteq {Current(t).version}
              /\ loc[t].attempted = SubSeq(Versions(loc[t].pending), 1, loc[t].idx)
        /\ loc[t].failedAt # 0 =>
              /\ pc[t] = "done"
              /\ ret[t].tag = "Err"
              /\ loc[t].attempted # <<>>
              /\ Last(loc[t].attempted) = loc[t].failedAt
              /\ \A i \in 1..Len(loc[t].attempted) : loc[t].attempted[i] <= loc[t].failedAt
              /\ \A i \in 1..Len(loc[t].committed) : loc[t].committed[i] < loc[t].failedAt

\* The step on which apply_migration fails in the batch of task t.
C8_Fails(t) ==
    ConsentBatch(t) /\ pc[t] \in ApplyPcs /\ pc'[t] = "done" /\ ret'[t].tag = "Err"

C8_Action(t) ==
    C8_Fails(t) =>
        /\ db' = db
        /\ \A i \in 1..(Len(loc'[t].attempted) - 1) :
              loc'[t].attempted[i] \in VersionSet(db'.ledger)
        /\ \A v \in VersionSet(db'.ledger) : v < loc'[t].failedAt

\* C8, as claimed: a batch calls apply_migration on the versions of its
\* pending list in strictly ascending order, with one transaction for one
\* migration; when the migration of version v fails the batch ends there, so
\* nothing above v was attempted; and at that failure the migrations the
\* batch attempted before v are committed and in the ledger, and the ledger
\* holds nothing but versions below v.
C8_AscendingStopAtFailure ==
    [](\A t \in Tasks : C8_State(t)) /\ [][\A t \in Tasks : C8_Action(t)]_vars

\* C9, as claimed: when a migration of the batch fails after others of it
\* succeeded, what apply_pending_migrations returns carries the list of
\* those that succeeded; when none fails it returns the migrations it
\* applied.
C9_ReturnsPrefixOnFailure ==
    \A t \in Tasks :
        (ConsentBatch(t) /\ pc[t] = "done") =>
            /\ (loc[t].failedAt # 0 /\ loc[t].applied # <<>>) =>
                  /\ "value" \in DOMAIN loc[t].batch
                  /\ loc[t].batch.value = loc[t].applied
            /\ loc[t].batch.tag = "Ok" =>
                  Versions(loc[t].batch.value) = loc[t].committed

\* C9, amended: when a migration of the batch fails, apply_pending_migrations
\* returns that failure and nothing else, and the command receives the same
\* error; when none fails it returns the migrations of the pending list it
\* detected, in ascending version order, on each of which apply_migration
\* returned Ok.
C9_ErrorOnlyOnFailure ==
    \A t \in Tasks :
        (ConsentBatch(t) /\ pc[t] = "done") =>
            /\ loc[t].failedAt # 0 =>
                  /\ loc[t].batch.tag = "Err"
                  /\ "value" \notin DOMAIN loc[t].batch
                  /\ ret[t] = loc[t].batch
            /\ loc[t].batch.tag = "Ok" =>
                  /\ loc[t].failedAt = 0
                  /\ ret[t] = Ok("unit")
                  /\ Versions(loc[t].batch.value) = loc[t].attempted
                  /\ StrictlyAscending(Versions(loc[t].batch.value))
                  /\ \A i \in 1..Len(loc[t].batch.value) :
                        \E j \in DOMAIN get_all_migrations :
                            loc[t].batch.value[i] = get_all_migrations[j]

\* A batch has failed at migration 3 with migrations 1 and 2 in its list of
\* applied ones, and has returned the error.
C9_Witness ==
    \E t \in Tasks :
        /\ ConsentBatch(t)
        /\ pc[t] = "done"
        /\ loc[t].failedAt = 3
        /\ Versions(loc[t].applied) = <<1, 2>>
        /\ loc[t].batch.tag = "Err"

\* C10: with the calls following one another, once
\* apply_migrations_with_consent(true) has returned Ok a fresh detection
\* finds needs_migration false and nothing pending, so the status is Current;
\* and the same call made next attempts and commits no migration and, unless
\* it fails, gets the empty list from apply_pending_migrations.
C10_IdempotentApply ==
    \A t \in Tasks :
        /\ AppliedOk(t) =>
              LET info == detect_database_version(db) IN
              /\ ~info.needs_migration
              /\ info.pending_migrations = <<>>
              /\ check_migration_status(info).status = "Current"
        /\ (ConsentBatch(t) /\ prev[t]) =>
              /\ loc[t].attempted = <<>>
              /\ loc[t].committed = <<>>
              /\ pc[t] \notin ApplyPcs
              /\ pc[t] = "done" =>
                    (ret[t].tag = "Ok" => loc[t].batch = Ok(<<>>))

\* The second of two successful calls in a row has returned: the first had
\* applied the three migrations, the second got the empty list.
C10_Witness ==
    \E t \in Tasks :
        /\ ConsentBatch(t)
        /\ prev[t]
        /\ pc[t] = "done"
        /\ loc[t].batch = Ok(<<>>)
        /\ Versions(db.ledger) = <<1, 2, 3>>


(***************************************************************************)
(* Detection on any database file.  An imported or restored file may hold  *)
(* any ledger the tracking table admits: the catalog versions in any       *)
(* subset and insertion order, each row with the catalog's checksum or     *)
(* another one, beside any of the business tables.                         *)
(***************************************************************************)

MaxDetectOps == 1

\* A table that is none of the four legacy ones.
OtherTable == "app_metadata"

CatalogEntry(v) ==
    CHOOSE m \in {get_all_migrations[i] : i \in DOMAIN get_all_migrations} :
        m.version = v

ChangedChecksum == "changed"

\* The sequences of distinct catalog versions.
LedgerOrders ==
    {s \in UNION {[1..n -> CatalogVersions] : n \in 0..Len(get_all_migrations)} :
        \A i, j \in 1..Len(s) : i # j => s[i] # s[j]}

\* The ledgers inserted in the order s, the rows of the versions in changed
\* carrying a checksum that is not the catalog's.
LedgerOf(s, changed) ==
    [i \in 1..Len(s) |->
        [id |-> i, version |-> s[i], name |-> CatalogEntry(s[i]).name,
         checksum |-> IF s[i] \in changed THEN ChangedChecksum
                      ELSE CatalogEntry(s[i]).checksum]]

DbStates ==
    {[hasTable |-> FALSE, ledger |-> <<>>, schema |-> {}, tables |-> ts] :
        ts \in SUBSET (LegacyTableNames \cup {OtherTable})}
    \cup
    {[hasTable |-> TRUE, ledger |-> LedgerOf(s, ch),
      schema |-> {s[i] : i \in 1..Len(s)}, tables |-> ts] :
        s \in LedgerOrders,
        ch \in SUBSET CatalogVersions,
        ts \in SUBSET (LegacyTableNames \cup {OtherTable})}

InitDetect ==
    /\ db \in DbStates
    /\ backups = << >>
    /\ now = 0
    /\ pc = [t \in Tasks |-> "idle"]
    /\ op = [t \in Tasks |-> NoOp]
    /\ loc = [t \in Tasks |-> LocInit]
    /\ ret = [t \in Tasks |-> RetNone]
    /\ prev = [t \in Tasks |-> FALSE]
    /\ dbWriter = NoTask
    /\ runnerMutex = [s \in Tasks |-> NoTask]
    /\ opsStarted = 0
    /\ embedded = PlainBuild

\* validate_migrations of the startup runner (database/migrations.rs), on the
\* rows of the ledger in version order; every version of the model is
\* registered, with the catalog's checksum.
validate_migrations(applied) ==
    IF \E i \in 1..Len(applied) :
          /\ applied[i].version \in CatalogVersions
          /\ applied[i].checksum # CatalogEntry(applied[i].version).checksum
    THEN Err("modified")
    ELSE Ok("unit")

StartValidate(t) ==
    /\ Begin(t, [kind |-> "validate_migrations"], "VM_validate", RetNone)
    /\ UNCHANGED <<db, backups, now, dbWriter, runnerMutex>>

Validate(t) ==
    /\ pc[t] = "VM_validate"
    /\ \/ Finish(t, validate_migrations(get_applied_migrations(db)), loc[t])
       \/ Fail(t, "detect", 0)
    /\ UNCHANGED <<db, backups, now, op, prev, dbWriter, opsStarted>>

NextDetect ==
    /\ \/ opsStarted < MaxDetectOps /\ StartCheck(1)
       \/ opsStarted < MaxDetectOps /\ StartValidate(1)
       \/ Validate(1)
       \/ CheckCur(1)
       \/ CheckStatus(1)
       \/ CheckBackup(1)
    /\ UNCHANGED embedded

SpecDetect == InitDetect /\ [][NextDetect]_vars


\* The ledger of d has no records: the tracking table is missing or empty.
NoRecords(d) == ~d.hasTable \/ d.ledger = <<>>

\* The three classes of a database, as the claim states them.
C11_Class(d) ==
    IF NoRecords(d)
    THEN (IF d.tables \cap LegacyTableNames = {} THEN -1 ELSE 0)
    ELSE CHOOSE v \in VersionSet(d.ledger) : \A w \in VersionSet(d.ledger) : w <= v

C11_State ==
    /\ get_current_version(db) = C11_Class(db)
    /\ detect_database_version(db).is_legacy <=> (C11_Class(db) = 0)
    /\ ~db.hasTable => get_applied_migrations(db) = <<>>
    /\ \A t \in Tasks :
          (op[t].kind = "check" /\ pc[t] = "done" /\ ret[t].tag = "Ok") =>
              LET st == ret[t].value.status IN
              /\ st.status = "Current" => st.version = C11_Class(db)
              /\ st.status = "RequiresUpgrade" => st.current_version = C11_Class(db)

C11_Action ==
    \A t \in Tasks :
        (pc[t] = "CM_cur" /\ pc'[t] = "CM_pend") => loc'[t].cur = C11_Class(db)

\* C11: get_current_version is -1 when the ledger has no records (tracking
\* table missing or empty) and none of customers, invoices, services, stores
\* exists, 0 when the ledger has no records and one of them exists, and the
\* greatest recorded version otherwise; is_legacy holds exactly when it is
\* 0; a missing tracking table reads as an empty ledger; and the version a
\* check reads and reports is that one.
C11_ThreeWayVersion == [](C11_State) /\ [][C11_Action]_vars

\* A check has read version 0 from a database whose tracking table exists
\* and is empty, beside one legacy table and one other table.
C11_Witness ==
    /\ pc[1] = "CM_pend"
    /\ loc[1].cur = 0
    /\ db.hasTable
    /\ db.ledger = <<>>
    /\ db.tables = {"invoices", OtherTable}


\* The versions the ledger of d records as applied.
Recorded(d) == IF d.hasTable THEN VersionSet(d.ledger) ELSE {}

C12_Info(d) ==
    LET info == detect_database_version(d)
        pending == info.pending_migrations
    IN /\ info.required_version \in CatalogVersions
       /\ \A v \in CatalogVersions : v <= info.required_version
       /\ info.needs_migration <=> (info.current_version < info.required_version)
       /\ info.current_version = get_current_version(d)
       /\ {pending[i] : i \in 1..Len(pending)}
             = {CatalogEntry(v) : v \in {w \in CatalogVersions :
                                           /\ w \notin Recorded(d)
                                           /\ w > info.current_version}}
       /\ StrictlyAscending(Versions(pending))
       /\ Recorded(d) = {1} =>
             /\ Versions(pending) = <<2, 3>>
             /\ info.needs_migration

\* C12: detect_database_version returns the greatest catalog version as
\* required_version, needs_migration = (current_version < required_version),
\* and as pending_migrations the catalog entries whose version is not
\* recorded and is greater than current_version, in ascending order (v2, v3
\* and needs_migration for a ledger of v1 alone); the status a check returns
\* is built from that detection.
C12_DetectPending ==
    /\ C12_Info(db)
    /\ \A t \in Tasks :
          (op[t].kind = "check" /\ pc[t] = "done" /\ ret[t].tag = "Ok") =>
              ret[t].value.status = check_migration_status(detect_database_version(db))

\* A check of a database whose ledger holds v1 alone has returned
\* RequiresUpgrade with v2 and v3 pending.
C12_Witness ==
    /\ op[1].kind = "check"
    /\ pc[1] = "done"
    /\ ret[1].tag = "Ok"
    /\ ret[1].value.status.status = "RequiresUpgrade"
    /\ Versions(ret[1].value.status.pending_migrations) = <<2, 3>>
    /\ db.hasTable
    /\ VersionSet(db.ledger) = {1}


\* initialize_database of task t has returned Ok.
InitializedOk(t) ==
    op[t].kind = "initialize_database" /\ pc[t] = "done" /\ ret[t].tag = "Ok"

\* The call of task t is the first call made on a database that started
\* empty: no other call has touched the file and it has no business tables.
OnEmptyDb(t) == opsStarted = 1 /\ op[t] # NoOp /\ db.tables = {}

\* C13: on a database that started empty (no tracking table, no business
\* tables) initialize_database calls apply_migration on the catalog
\* versions in ascending order, and when it has returned Ok the ledger holds
\* one record per catalog version, inserted in the order 1, 2, 3, so that
\* current_version is the greatest catalog version and the status detected
\* is Current with that version.
C13_InitializeFromEmpty ==
    \A t \in Tasks :
        /\ (op[t].kind = "initialize_database" /\ OnEmptyDb(t)) =>
              /\ StrictlyAscending(loc[t].attempted)
              /\ loc[t].committed
                    = SubSeq(loc[t].attempted, 1, Len(loc[t].committed))
              /\ Len(loc[t].attempted) <= Len(loc[t].committed) + 1
              /\ Versions(db.ledger) = loc[t].committed
        /\ (InitializedOk(t) /\ OnEmptyDb(t)) =>
              /\ loc[t].attempted = Versions(get_all_migrations)
              /\ Versions(db.ledger) = <<1, 2, 3>>
              /\ [i \in 1..Len(db.ledger) |-> db.ledger[i].id] = <<1, 2, 3>>
              /\ db.schema = CatalogVersions
              /\ get_current_version(db) = SeqMax(Versions(get_all_migrations))
              /\ check_migration_status(detect_database_version(db))
                    = [status |-> "Current", version |-> 3]

\* initialize_database has returned Ok on a database that started empty.
C13_Witness ==
    /\ InitializedOk(1)
    /\ OnEmptyDb(1)
    /\ db.hasTable
    /\ Len(db.ledger) = 3


SafetyLabel == "safety_before_restore"

\* Task t is in on_database_restore or on_database_import.
Restoring(t) ==
    /\ op[t].kind = "check"
    /\ op[t].trigger.kind \in {"DatabaseRestore", "DatabaseImport"}

C14_State ==
    \A t \in Tasks :
        pc[t] \in {"RB_safety", "RB_copy"} => Restoring(t)

C14_Action ==
    \A t \in Tasks :
        /\ (pc[t] = "RB_safety" /\ pc'[t] = "RB_copy") =>
              /\ db' = db
              /\ \E p \in DOMAIN backups' :
                    /\ p = BackupPath(SafetyLabel, now')
                    /\ backups'[p] = db
        /\ (pc[t] = "RB_safety" /\ pc'[t] # "RB_safety" /\ pc'[t] # "RB_copy") =>
              /\ pc'[t] = "done"
              /\ ret'[t] = Err("backup")
              /\ db' = db
              /\ backups' = backups
        /\ (Restoring(t) /\ RestoreCopyStep(t)) =>
              /\ db' = FileContent(op[t].trigger.path)
              /\ \E p \in DOMAIN backups : p.label = SafetyLabel
        /\ (Restoring(t) /\ Moved(t) /\ ~RestoreCopyStep(t)
              /\ pc[t] \in {"idle", "done", "RB_safety", "RB_copy"}) => db' = db

\* C14: restore_backup, and import_database through it, first writes a
\* safety backup holding the live database as it is then and only
\* afterwards copies the given file over the live file; when the safety
\* backup cannot be created the call returns that error, the live file is
\* not overwritten and no file is written.
C14_SafetyBackupFirst == [](C14_State) /\ [][C14_Action]_vars

\* An import has copied the external file over the live database and its
\* safety backup is in the backup directory.
C14_Witness ==
    \E t \in Tasks :
        /\ Restoring(t)
        /\ op[t].trigger.kind = "DatabaseImport"
        /\ pc[t] = "CM_cur"
        /\ db = ExternalDb
        /\ \E p \in DOMAIN backups : p.label = SafetyLabel /\ backups[p] # ExternalDb


\* C15, as claimed: a restore_backup that succeeds leaves in the backup
\* directory exactly one file more than it found: its safety backup adds one
\* file and its copy over the live file adds and removes none.
C15_OneMoreBackupFile ==
    [][\A t \in Tasks :
          /\ (pc[t] = "RB_safety" /\ pc'[t] = "RB_copy") =>
                Cardinality(DOMAIN backups') = Cardinality(DOMAIN backups) + 1
          /\ RestoreCopyStep(t) => backups' = backups]_vars


(***************************************************************************)
(* The file operations: BackupManager::list_backups and                    *)
(* cleanup_old_backups, DatabaseManager::restore_from_file behind the      *)
(* restore_database command, beside the restores, imports and checks       *)
(* above, called one after another.                                        *)
(***************************************************************************)

MaxFileOps == 3
MaxKeep == 2

\* A file of the backup directory that is no backup.
NotesPath == [label |-> "notes", ts |-> 0, ext |-> "txt"]

\* path.extension(): create_backup names its files *.sqlite.
Extension(p) == IF "ext" \in DOMAIN p THEN p.ext ELSE "sqlite"

\* metadata.created() in seconds: a backup is created in the second its
\* name carries.
BackupInfo(p) == [path |-> p, created_at |-> p.ts]

\* read_dir yields the entries in an order of its own.
RECURSIVE DirOrders(_)
DirOrders(S) ==
    IF S = {} THEN {<<>>}
    ELSE UNION {{<<p>> \o s : s \in DirOrders(S \ {p})} : p \in S}

\* The push of list_backups: entries that are no *.sqlite file are left
\* out.
Pushed(order) ==
    LET kept == SelectSeq(order, LAMBDA p: Extension(p) = "sqlite")
    IN [i \in 1..Len(kept) |-> BackupInfo(kept[i])]

\* backups.sort_by(|a, b| b.created_at.cmp(&a.created_at)): a stable sort,
\* so entries of the same second keep the order read_dir gave them.
RECURSIVE SortNewestFirst(_)
SortNewestFirst(s) ==
    IF s = <<>> THEN <<>>
    ELSE LET rest == SortNewestFirst(Tail(s))
             newer == SelectSeq(rest, LAMBDA b: b.created_at > s[1].created_at)
             older == SelectSeq(rest, LAMBDA b: b.created_at <= s[1].created_at)
         IN newer \o <<s[1]>> \o older

\* The comparison is a.created_at.cmp(&b.created_at): oldest first.
list_backups_oldest_first(order) ==
    LET sorted == SortNewestFirst(Pushed(order))
    IN [i \in 1..Len(sorted) |-> sorted[Len(sorted) + 1 - i]]

list_backups(order) == SortNewestFirst(Pushed(order))

\* backups.iter().skip(keep_count): the first entry removed, counted from 1.
FirstRemoved(keep_count) == keep_count + 1

remove_file(files, p) == [q \in DOMAIN files \ {p} |-> files[q]]

StartListBackups(t) ==
    /\ Begin(t, [kind |-> "list_backups"], "LB_list", RetNone)
    /\ UNCHANGED <<db, backups, now, dbWriter, runnerMutex>>

ListBackups(t) ==
    /\ pc[t] = "LB_list"
    /\ \/ \E order \in DirOrders(DOMAIN backups) :
             Finish(t, Ok(list_backups(order)),
                    [loc[t] EXCEPT !.listed = list_backups(order)])
       \/ Fail(t, "list", 0)
    /\ UNCHANGED <<db, backups, now, op, prev, dbWriter, opsStarted>>

StartCleanup(t) ==
    /\ \E k \in 0..MaxKeep :
          Begin(t, [kind |-> "cleanup_old_backups", keep_count |-> k], "CL_list", RetNone)
    /\ UNCHANGED <<db, backups, now, dbWriter, runnerMutex>>

CleanupList(t) ==
    /\ pc[t] = "CL_list"
    /\ \/ \E order \in DirOrders(DOMAIN backups) :
             LET listed == list_backups(order)
                 l == [loc[t] EXCEPT !.listed = listed]
             IN IF Len(listed) <= op[t].keep_count
                THEN Finish(t, Ok("unit"), l)
                ELSE /\ pc' = [pc EXCEPT ![t] = "CL_remove"]
                     /\ loc' = [loc EXCEPT ![t] =
                                   [l EXCEPT !.idx = FirstRemoved(op[t].keep_count)]]
                     /\ UNCHANGED <<ret, runnerMutex>>
       \/ Fail(t, "list", 0)
    /\ UNCHANGED <<db, backups, now, op, prev, dbWriter, opsStarted>>

CleanupRemove(t) ==
    /\ pc[t] = "CL_remove"
    /\ \/ /\ backups' = remove_file(backups, loc[t].listed[loc[t].idx].path)
          /\ IF loc[t].idx < Len(loc[t].listed)
             THEN /\ pc' = [pc EXCEPT ![t] = "CL_remove"]
                  /\ loc' = [loc EXCEPT ![t].idx = @ + 1]
                  /\ UNCHANGED <<ret, runnerMutex>>
             ELSE Finish(t, Ok("unit"), [loc[t] EXCEPT !.listed = loc[t].listed])
       \/ /\ Fail(t, "cleanup", 0)
          /\ UNCHANGED backups
    /\ UNCHANGED <<db, now, op, prev, dbWriter, opsStarted>>

StartRestoreFromFile(t) ==
    /\ \E p \in DOMAIN backups \cup {ExternalPath} :
          Begin(t, [kind |-> "restore_database", path |-> p], "RF_copy", RetNone)
    /\ UNCHANGED <<db, backups, now, dbWriter, runnerMutex>>

\* self.pool.close().await, then fs::copy(backup_path, &target_path).
RestoreFromFile(t) ==
    /\ pc[t] = "RF_copy"
    /\ \/ /\ FileExists(op[t].path)
          /\ dbWriter = NoTask
          /\ db' = FileContent(op[t].path)
          /\ Finish(t, Ok("Database restored successfully"), loc[t])
       \/ /\ Fail(t, "restore", 0)
          /\ UNCHANGED db
    /\ UNCHANGED <<backups, now, op, prev, dbWriter, opsStarted>>

InitFiles ==
    /\ db \in {EmptyDb, LegacyDb, ExternalDb}
    /\ backups \in {<< >>, [p \in {NotesPath} |-> EmptyDb]}
    /\ now = 0
    /\ pc = [t \in Tasks |-> "idle"]
    /\ op = [t \in Tasks |-> NoOp]
    /\ loc = [t \in Tasks |-> LocInit]
    /\ ret = [t \in Tasks |-> RetNone]
    /\ prev = [t \in Tasks |-> FALSE]
    /\ dbWriter = NoTask
    /\ runnerMutex = [s \in Tasks |-> NoTask]
    /\ opsStarted = 0
    /\ embedded = PlainBuild

StartFiles(t) ==
    \/ StartCheck(t)
    \/ StartRestore(t)
    \/ StartRestoreFromFile(t)
    \/ StartListBackups(t)
    \/ StartCleanup(t)

RunFiles(t) ==
    \/ RestoreSafety(t)
    \/ RestoreCopy(t)
    \/ CheckCur(t)
    \/ CheckStatus(t)
    \/ CheckBackup(t)
    \/ RestoreFromFile(t)
    \/ ListBackups(t)
    \/ CleanupList(t)
    \/ CleanupRemove(t)

NextFiles ==
    /\ RunFiles(1) \/ (opsStarted < MaxFileOps /\ StartFiles(1))
    /\ UNCHANGED embedded

SpecFiles == InitFiles /\ [][NextFiles]_vars


\* restore_from_file of task t copies its file over the live database.
RestoreFromFileStep(t) ==
    pc[t] = "RF_copy" /\ pc'[t] = "done" /\ ret'[t].tag = "Ok"

\* A snapshot of the live database as it is now is in the backup directory.
SnapshotOfLive == \E p \in DOMAIN backups : Extension(p) = "sqlite" /\ backups[p] = db

\* C16, as claimed: whenever an operation copies another file over the live
\* database file (restore_backup, import_database, restore_from_file), a
\* snapshot of the live database as it is at that moment has been created.
C16_SnapshotBeforeOverwrite ==
    [][\A t \in Tasks :
          (RestoreCopyStep(t) \/ RestoreFromFileStep(t)) => SnapshotOfLive]_vars


\* The file task t restores or imports, as it is on disk.
GivenFile(t) ==
    IF op[t].trigger.path = ExternalPath THEN ExternalDb
    ELSE backups[op[t].trigger.path]

PreMigrationFiles(files) == {p \in DOMAIN files : p.label \in PreMigrationLabels}

C17_State ==
    \A t \in Tasks :
        Restoring(t) =>
            /\ pc[t] \in {"CM_cur", "CM_pend", "CM_backup"} => db = GivenFile(t)
            /\ pc[t] = "CM_pend" => loc[t].cur = get_current_version(GivenFile(t))
            /\ (pc[t] = "done" /\ ret[t].tag = "Ok") =>
                  /\ db = GivenFile(t)
                  /\ ret[t].value.status
                        = check_migration_status(detect_database_version(GivenFile(t)))
                  /\ ret[t].value.backup_created # NoneOpt =>
                        backups[ret[t].value.backup_created[1]] = GivenFile(t)

C17_Action ==
    \A t \in Tasks :
        (Restoring(t) /\ pc[t] \in {"RB_safety", "RB_copy"} /\ pc'[t] = "done") =>
            /\ ret'[t].tag = "Err"
            /\ ret'[t].error \in {"backup", "restore"}
            /\ loc'[t].status = NoStatus
            /\ PreMigrationFiles(backups') = PreMigrationFiles(backups)
            /\ \A p \in PreMigrationFiles(backups) : backups'[p] = backups[p]
            /\ db' = db

\* C17: on_database_restore and on_database_import finish the copy of the
\* given file over the live database before the status is detected, so the
\* version read, the status returned and the pre-migration backup, if any,
\* are those of the given file; when the restore or import fails the call
\* returns that error with no status detected and no pre-migration backup
\* written.
C17_RestoreThenCheck == [](C17_State) /\ [][C17_Action]_vars

\* An import over a database without a ledger has returned the status of
\* the imported file, RequiresUpgrade from version 1, with the backup of it.
C17_Witness ==
    \E t \in Tasks :
        /\ Restoring(t)
        /\ op[t].trigger.path = ExternalPath
        /\ pc[t] = "done"
        /\ ret[t].tag = "Ok"
        /\ ret[t].value.status.status = "RequiresUpgrade"
        /\ ret[t].value.status.current_version = 1
        /\ ret[t].value.backup_created # NoneOpt
        /\ \E p \in DOMAIN backups : p.label = SafetyLabel /\ backups[p].ledger = <<>>


SqliteFiles(files) == {p \in DOMAIN files : Extension(p) = "sqlite"}

Min(a, b) == IF a <= b THEN a ELSE b

\* list holds each *.sqlite file of files once, the newest first.
NewestFirstListOf(list, files) ==
    /\ {list[i].path : i \in 1..Len(list)} = SqliteFiles(files)
    /\ Len(list) = Cardinality(SqliteFiles(files))
    /\ \A i \in 1..Len(list) : list[i].created_at = list[i].path.ts
    /\ \A i, j \in 1..Len(list) : i < j => list[i].created_at >= list[j].created_at

CleanupOf(t) == op[t].kind = "cleanup_old_backups"

C18_State ==
    \A t \in Tasks :
        /\ (op[t].kind = "list_backups" /\ pc[t] = "done" /\ ret[t].tag = "Ok") =>
              NewestFirstListOf(ret[t].value, backups)
        /\ (CleanupOf(t) /\ pc[t] = "done" /\ ret[t].tag = "Ok") =>
              LET list == loc[t].listed
                  kept == Min(op[t].keep_count, Len(list))
              IN SqliteFiles(backups) = {list[i].path : i \in 1..kept}

C18_Action ==
    \A t \in Tasks :
        /\ (CleanupOf(t) /\ pc[t] = "CL_list" /\ ret'[t].tag # "Err") =>
              /\ NewestFirstListOf(loc'[t].listed, backups)
              /\ backups' = backups
              /\ Len(loc'[t].listed) <= op[t].keep_count => pc'[t] = "done"
        /\ (CleanupOf(t) /\ pc[t] = "CL_remove") =>
              /\ DOMAIN backups' \subseteq DOMAIN backups
              /\ \A p \in DOMAIN backups' : backups'[p] = backups[p]
              /\ DOMAIN backups \ DOMAIN backups' \subseteq SqliteFiles(backups)
              /\ loc'[t].listed = loc[t].listed
        /\ (CleanupOf(t) /\ Moved(t)) => db' = db

Mismatch(d) ==
    /\ d.hasTable
    /\ \E i \in 1..Len(d.ledger) :
          d.ledger[i].checksum # CatalogEntry(d.ledger[i].version).checksum

\* d with every row carrying the catalog's checksum.
Matching(d) ==
    [d EXCEPT !.ledger = [i \in 1..Len(d.ledger) |->
                             [d.ledger[i] EXCEPT
                                 !.checksum = CatalogEntry(d.ledger[i].version).checksum]]]

\* C19, as claimed: when a row of the ledger carries a checksum that is not
\* the catalog's, validate_migrations at startup does not fail on it, and
\* what a check returns differs from what it returns for the same database
\* with the catalog's checksums, so that the mismatch is not silent.
C19_MismatchWarned ==
    \A t \in Tasks :
        (Mismatch(db) /\ pc[t] = "done") =>
            /\ (op[t].kind = "validate_migrations" /\ ret[t] # Err("detect")) =>
                  ret[t].tag = "Ok"
            /\ (op[t].kind = "check" /\ ret[t].tag = "Ok") =>
                  ret[t].value.status
                      # check_migration_status(detect_database_version(Matching(db)))


\* C20, as claimed: every error that apply_migration returns (content not
\* found, empty content, execution, insertion of the ledger row, commit)
\* names the version or the name of the migration it was applying.
C20_ErrorsNameMigration ==
    [][\A t \in Tasks :
          (pc[t] \in ApplyPcs /\ pc'[t] = "done" /\ ret'[t].tag = "Err") =>
              ErrorContext(ret'[t].error) \cap {"version", "name"} # {}]_vars


(***************************************************************************)
(* apply_migration on any build: the three included files hold any of the  *)
(* texts, and apply_migration is also called with a Migration that is not  *)
(* the catalog's.                                                          *)
(***************************************************************************)

MaxApplyOps == 2

\* A version the catalog does not have, a catalog version with a file name
\* that embedded_migrations.rs does not know, and a pair it resolves to a
\* text written out in the source.
GivenMigrations ==
    {get_all_migrations[i] : i \in DOMAIN get_all_migrations}
    \cup
    {[version |-> 4, name |-> "v004_unlisted",
      sql_file |-> "v004_unlisted.sql", checksum |-> "unlisted_v4"],
     [version |-> 2, name |-> "v002_gst_fixes",
      sql_file |-> "v002_gst_fix.sql", checksum |-> "gst_fixes_v2"],
     [version |-> 3, name |-> "v003_additional_indexes",
      sql_file |-> "v003_additional_indexes.sql", checksum |-> "additional_indexes_v3"]}

StartApplyGiven(t) ==
    /\ \E m \in GivenMigrations :
          BeginWith(t, [kind |-> "apply_migration", migration |-> m], "AM_check", RetNone,
                    [LocInit EXCEPT !.pending = <<m>>, !.idx = 1])
    /\ UNCHANGED <<db, backups, now, dbWriter, runnerMutex>>

\* The row of the version is deleted and its effects undone.
rollback_migration_undoing(d, version) ==
    [db |-> [d EXCEPT !.ledger = SelectSeq(@, LAMBDA r: r.version # version),
                      !.schema = @ \ {version}],
     ret |-> Ok("unit")]

\* bail!("Migration rollback not yet implemented for version {}", version):
\* the database after the call and what the call returns.
rollback_migration(d, version) == [db |-> d, ret |-> Err("not_implemented")]

\* The versions rollback_migration is called with: the catalog's, the
\* markers 0 and -1 and one above the catalog.
RollbackVersions == -1..(Len(get_all_migrations) + 1)

\* The body has no await: the call is one step.
Rollback(t) ==
    /\ \E version \in RollbackVersions :
          LET r == rollback_migration(db, version)
          IN /\ Begin(t, [kind |-> "rollback_migration", version |-> version],
                      "done", r.ret)
             /\ db' = r.db
    /\ UNCHANGED <<backups, now, dbWriter, runnerMutex>>

InitApply ==
    /\ db \in {EmptyDb, LegacyDb, ExternalDb}
    /\ embedded \in [IncludedFiles -> Texts]
    /\ backups = << >>
    /\ now = 0
    /\ pc = [t \in Tasks |-> "idle"]
    /\ op = [t \in Tasks |-> NoOp]
    /\ loc = [t \in Tasks |-> LocInit]
    /\ ret = [t \in Tasks |-> RetNone]
    /\ prev = [t \in Tasks |-> FALSE]
    /\ dbWriter = NoTask
    /\ runnerMutex = [s \in Tasks |-> NoTask]
    /\ opsStarted = 0

StartApply(t) ==
    \/ Consent(t)
    \/ StartInitialize(t)
    \/ StartApplyGiven(t)
    \/ Rollback(t)

RunApply(t) ==
    \/ ConsentLock(t)
    \/ PendingTable(t)
    \/ PendingCur(t)
    \/ PendingList(t)
    \/ ApplyCheck(t)
    \/ ApplyExec(t)
    \/ ApplyRecord(t)
    \/ ApplyCommit(t)
    \/ InitializeTable(t)

NextApply ==
    /\ RunApply(1) \/ (opsStarted < MaxApplyOps /\ StartApply(1))
    /\ UNCHANGED embedded

SpecApply == InitApply /\ [][NextApply]_vars

\* The text apply_migration loads for m, NoSql when none is found.
LoadedText(m) ==
    LET c == get_migration_sql(m.version, m.sql_file)
    IN IF c = NoSql THEN NoSql ELSE EmbeddedText(embedded, c)

Rejected(t) == pc'[t] = "done" /\ ret'[t].tag = "Err"

C21_Action(t) ==
    (pc[t] = "AM_check" /\ Moved(t) /\ ~is_migration_applied(db, Current(t).version)) =>
        /\ Rejected(t) <=> LoadedText(Current(t)) \in {NoSql, "", " "}
        /\ Rejected(t) =>
              /\ ret'[t].error = IF LoadedText(Current(t)) = NoSql
                                 THEN "not_found" ELSE "empty_sql"
              /\ loc[t].tx = EmptyTx
              /\ dbWriter # t
              /\ dbWriter' = dbWriter
              /\ db' = db
              /\ loc'[t].committed = loc[t].committed
              /\ InBatch(t) => loc'[t].batch.tag = "Err"
        /\ ~Rejected(t) => pc'[t] = "AM_exec"

\* A text with the keywords has gone through the load and the validation
\* and is executed, recorded and committed as the others are.
C21_State ==
    \A t \in Tasks :
        /\ (pc[t] \in {"AM_exec", "AM_record", "AM_commit"}) =>
              LoadedText(Current(t)) \in {PlainSql, DangerousSql}
        /\ (pc[t] = "done" /\ op[t].kind = "apply_migration" /\ ret[t].tag = "Ok") =>
              op[t].migration.version \in VersionSet(db.ledger)

RollbackStep(t) == op'[t].kind = "rollback_migration" /\ opsStarted' # opsStarted

\* C22: rollback_migration(version) returns the "not implemented" error for
\* every version, recorded in the ledger or not, never Ok, and the call
\* leaves the ledger, the schema and the tracking table as they were.
C22_RollbackNotImplemented ==
    /\ [](\A t \in Tasks :
             op[t].kind = "rollback_migration" =>
                 pc[t] = "done" /\ ret[t] = Err("not_implemented"))
    /\ [][\A t \in Tasks : RollbackStep(t) => db' = db]_vars

\* rollback_migration has been called with a version the ledger records.
C22_Witness ==
    \E t \in Tasks :
        /\ op[t].kind = "rollback_migration"
        /\ pc[t] = "done"
        /\ op[t].version \in VersionSet(db.ledger)
        /\ op[t].version \in db.schema


(***************************************************************************)
(* VersionInfo (version.rs): the migration path from a database version    *)
(***************************************************************************)

MaxDbVersion == 4
MaxPathOps == 1

MIN_SUPPORTED_DB_VERSION == 0

REQUIRED_DB_VERSION == 3

\* The fields of VersionInfo are public: default() gives the two constants,
\* and any pair min <= required within the bound can be built.
VersionInfos ==
    {i \in [required_db_version : 0..MaxDbVersion,
            min_supported_db_version : -1..MaxDbVersion] :
        i.min_supported_db_version <= i.required_db_version}

\* The versions handed to get_migration_path: two below the least minimum
\* and two above the greatest requirement.
DbVersions == -3..(MaxDbVersion + 2)

is_db_version_supported(self, db_version) ==
    db_version >= self.min_supported_db_version /\ db_version <= self.required_db_version

needs_migration(self, current_db_version) ==
    current_db_version < self.required_db_version

\* The loop pushes current_db_version itself first.
get_migration_path_from_current(self, current_db_version) ==
    IF ~is_db_version_supported(self, current_db_version)
    THEN Err("not_supported")
    ELSE Ok([i \in 1..(self.required_db_version - current_db_version + 1) |->
                current_db_version + i - 1])

get_migration_path(self, current_db_version) ==
    IF ~is_db_version_supported(self, current_db_version)
    THEN Err("not_supported")
    ELSE IF current_db_version >= self.required_db_version
    THEN Ok(<<>>)
    ELSE Ok([i \in 1..(self.required_db_version - current_db_version) |->
                current_db_version + i])

\* get_migration_path has no await: the call is one step.
MigrationPath(t) ==
    /\ \E self \in VersionInfos, v \in DbVersions :
          Begin(t, [kind |-> "get_migration_path", self |-> self,
                    current_db_version |-> v],
                "done", get_migration_path(self, v))
    /\ UNCHANGED <<db, backups, now, dbWriter, runnerMutex>>

NextVersion ==
    /\ opsStarted < MaxPathOps /\ MigrationPath(1)
    /\ UNCHANGED embedded

SpecVersion == Init /\ [][NextVersion]_vars

CreateBackupStep(t) ==
    /\ pc[t] \in {"CM_backup", "RB_safety"}
    /\ pc'[t] # pc[t]
    /\ ret'[t].tag # "Err"

PrefixOf(t) ==
    IF pc[t] = "CM_backup" THEN backup_name(op[t].trigger) ELSE "safety_before_restore"

C24_Action(t) ==
    CreateBackupStep(t) =>
        LET p == BackupPath(PrefixOf(t), now')
            same == {q \in DOMAIN backups : q.label = PrefixOf(t) /\ q.ts = now'}
        IN /\ p \in DOMAIN backups'
           /\ backups'[p] = db
           /\ backup_filename(p) = PrefixOf(t) \o "_" \o Timestamp(now') \o ".sqlite"
           /\ pc[t] = "CM_backup" => ret'[t].value.backup_created = Some(p)
           /\ \A q \in DOMAIN backups :
                 /\ q \in DOMAIN backups'
                 /\ q \notin same => backups'[q] = backups[q]
           /\ IF same = {}
              THEN Cardinality(DOMAIN backups') = Cardinality(DOMAIN backups) + 1
              ELSE /\ same = {p}
                   /\ DOMAIN backups' = DOMAIN backups

\* Two files of the directory have the same name only if they are one file,
\* and two calls that have returned have returned the same path exactly
\* when their prefixes and the seconds of their names are the same.
C24_State ==
    /\ \A p, q \in DOMAIN backups :
          backup_filename(p) = backup_filename(q) <=> (p.label = q.label /\ p.ts = q.ts)
    /\ \A t, u \in Tasks :
          (/\ op[t].kind = "check" /\ pc[t] = "done" /\ ret[t].tag = "Ok"
           /\ op[u].kind = "check" /\ pc[u] = "done" /\ ret[u].tag = "Ok"
           /\ ret[t].value.backup_created # NoneOpt
           /\ ret[u].value.backup_created # NoneOpt) =>
              LET p == ret[t].value.backup_created[1]
                  q == ret[u].value.backup_created[1]
              IN /\ {p, q} \subseteq DOMAIN backups
                 /\ p.label = backup_name(op[t].trigger)
                 /\ (p = q) <=> (backup_name(op[t].trigger) = backup_name(op[u].trigger)
                                 /\ p.ts = q.ts)

\* C24: two create_backup calls, one after the other or overlapping,
\* return two paths and leave two files, unless they have the same prefix in
\* the same second: then the path is the same, <prefix>_<second>.sqlite, and
\* the later copy replaces the file of the earlier.
C24_DistinctUnlessSameSecond ==
    [](C24_State) /\ [][\A t \in Tasks : C24_Action(t)]_vars

\* Two overlapping checks have each returned a backup, of the same prefix
\* and second: one file is left.
C24_Witness ==
    /\ \A t \in Tasks :
          /\ op[t].kind = "check"
          /\ pc[t] = "done"
          /\ ret[t].tag = "Ok"
          /\ ret[t].value.backup_created # NoneOpt
    /\ ret[1].value.backup_created = ret[2].value.backup_created
    /\ Cardinality(DOMAIN backups) = 1


\* The copy of a restore_backup from the safety backup of the restore this
\* task made just before.
UndoCopy(t) == RestoreCopyStep(t) /\ loc[t].undo # NoneOpt

\* C25, as claimed: restore_backup(p) on the live content L and then
\* restore_backup(s), s being the safety backup the first has written, ends
\* with L as the live content again, whatever the time between the two.
C25_RestoreIsRecoverable ==
    [][\A t \in Tasks : UndoCopy(t) => db' = loc[t].undo[1]]_vars


\* Task t reads the directory, in list_backups or for cleanup_old_backups.
ListStep(t) ==
    \/ pc[t] = "LB_list" /\ ret'[t].tag = "Ok"
    \/ pc[t] = "CL_list" /\ ret'[t].tag # "Err"

\* The list it gets.
ListOf(t) == IF pc[t] = "LB_list" THEN ret'[t].value ELSE loc'[t].listed

\* C26, as claimed: the list that list_backups returns, and so what
\* cleanup_old_backups removes, depends on the files of the directory and
\* their creation times alone: it is the list that any order of enumeration
\* of the directory gives, backups of the same second included.
C26_ListOrderDeterministic ==
    [][\A t \in Tasks :
          ListStep(t) =>
              \A order \in DirOrders(DOMAIN backups) : ListOf(t) = list_backups(order)]_vars


\* The message the database gave, innermost in the chain.
Underlying(chain) == chain[Len(chain)]

\* The prefix that the first pattern found in msg selects.
CategoryOf(msg) ==
    IF "no such file" \in msg.has THEN "Migration files not found"
    ELSE IF "syntax" \in msg.has THEN "SQL syntax error in migration"
    ELSE IF "already exists" \in msg.has THEN "Database object already exists"
    ELSE "Migration failed"

\* C27, as claimed: when apply_migrations_with_consent fails, the command
\* reports the category that the first pattern found in the underlying
\* error message selects; so an execution that the database refuses with
\* "syntax error" is reported as an SQL syntax error and one it refuses with
\* "already exists" as a database that may be partially migrated.
C27_ErrorCategory ==
    \A t \in Tasks :
        (op[t].kind = "consent" /\ pc[t] = "done" /\ ret[t].tag = "Err") =>
            /\ loc[t].api = CategoryOf(Underlying(loc[t].chain))
            /\ (ret[t] = Err("execute") /\ Underlying(loc[t].chain) = SyntaxError) =>
                  loc[t].api = "SQL syntax error in migration"
            /\ (ret[t] = Err("execute") /\ Underlying(loc[t].chain) = AlreadyExists) =>
                  loc[t].api = "Database object already exists"


(***************************************************************************)
(* Batches alone: apply_pending_migrations (through the consent call) and  *)
(* initialize_database, overlapping, on a database that starts with no     *)
(* ledger.                                                                 *)
(***************************************************************************)

MaxBatchOps == 3

InitBatches ==
    /\ db \in {EmptyDb, LegacyDb}
    /\ embedded = PlainBuild
    /\ backups = << >>
    /\ now = 0
    /\ pc = [t \in Tasks |-> "idle"]
    /\ op = [t \in Tasks |-> NoOp]
    /\ loc = [t \in Tasks |-> LocInit]
    /\ ret = [t \in Tasks |-> RetNone]
    /\ prev = [t \in Tasks |-> FALSE]
    /\ dbWriter = NoTask
    /\ runnerMutex = [s \in Tasks |-> NoTask]
    /\ opsStarted = 0

StartBatches(t) ==
    \/ Consent(t)
    \/ StartInitialize(t)

NextBatches ==
    /\ \E t \in Tasks : RunApply(t) \/ (opsStarted < MaxBatchOps /\ StartBatches(t))
    /\ UNCHANGED embedded

SpecBatches == InitBatches /\ [][NextBatches]_vars

\* C28: from a database with no ledger, whatever batches of
\* apply_pending_migrations and initialize_database have run, ended, failed
\* or overlapped, every version the ledger records is a version of the
\* catalog and every smaller version of the catalog is recorded too.
C28_LedgerIsCatalogPrefix ==
    \A v \in VersionSet(db.ledger) :
        /\ v \in CatalogVersions
        /\ \A w \in CatalogVersions : w < v => w \in VersionSet(db.ledger)

\* Two overlapping batches have each committed a part of the catalog, one
\* of them has then failed, and the ledger holds the whole catalog.
C28_Witness ==
    /\ \A t \in Tasks : pc[t] = "done" /\ loc[t].committed # <<>>
    /\ \E t \in Tasks : ret[t].tag = "Err"
    /\ VersionSet(db.ledger) = CatalogVersions


\* Task t builds the snapshot of detect_database_version from its two reads.
SnapshotStep(t) == pc[t] \in {"CM_pend", "AP_pend"} /\ Moved(t)

SnapshotOf(t) == DatabaseVersionInfo(loc[t].cur, get_applied_migrations(db))

\* C29, as claimed: in the snapshot detect_database_version returns,
\* needs_migration is true exactly when pending_migrations is not empty,
\* whatever the ledger holds; so no check returns RequiresUpgrade with an
\* empty list of pending migrations.
C29_NeedsIffPending ==
    /\ [](\A t \in Tasks :
             (op[t].kind = "check" /\ pc[t] = "done" /\ ret[t].tag = "Ok"
              /\ ret[t].value.status.status = "RequiresUpgrade") =>
                 ret[t].value.status.pending_migrations # <<>>)
    /\ [][\A t \in Tasks :
             SnapshotStep(t) =>
                 (SnapshotOf(t).needs_migration
                      <=> SnapshotOf(t).pending_migrations # <<>>)]_vars


\* C30, as claimed: when a check returns Current{version} with a version
\* that is at most the greatest of the catalog, every migration of the
\* catalog is recorded in the ledger, whatever database the check was made
\* on, one whose ledger has a later version and lacks an earlier one
\* included.
C30_CurrentMeansAllApplied ==
    \A t \in Tasks :
        (/\ op[t].kind = "check" /\ pc[t] = "done" /\ ret[t].tag = "Ok"
         /\ ret[t].value.status.status = "Current"
         /\ ret[t].value.status.version <= SeqMax(Versions(get_all_migrations))) =>
            CatalogVersions \subseteq VersionSet(get_applied_migrations(db))

====
